---------------------------- MODULE Spec2Model ----------------------------
(***************************************************************************)
(* A model of node-security: NodeSecurity (configure / reset), the         *)
(* ModuleLoader hook it installs over Module._load (findParentModules,     *)
(* isModuleAllowed, load) and NodeSecurityPlugin.                          *)
(*                                                                         *)
(* JavaScript values are encoded with one record shape per kind of value   *)
(* so that any two of them can be compared:                                *)
(*   a value of config.core   [type, allow, off, on]                       *)
(*       type "absent"    the key is not in the object                     *)
(*       type "undefined" the key is there and holds undefined             *)
(*       type "boolean"   true / false (allow)                             *)
(*       type "object"    a member map: off = the keys holding false,      *)
(*                        on = the keys holding true                       *)
(*   a value of config.module [present, perms]  perms[name] is "unset",    *)
(*       "true" or "false"                                                 *)
(*   config.env               [type, allow]  type "none" (null/undefined), *)
(*       "false" (the value false) or "map" (allow[name] as for perms)     *)
(***************************************************************************)
EXTENDS Integers, Sequences, FiniteSets, TLC

(* ---------------------------- bounds ---------------------------------- *)

\* Number of NodeSecurity instances the application constructs.
NumInstances == 2

\* Longest chain of parent modules of a load request.
MaxParents == 2

(* ---------------------------- names ----------------------------------- *)

\* The built-in modules of the constructor's table (a sample of the 32).
CoreModules == {"fs", "os"}

\* The name under which the constructor lists node-security itself.
GatekeeperName == "node-security"

\* A module that is in no default table.
ThirdPartyModules == {"fs-extra"}

RequestNames == CoreModules \cup {GatekeeperName} \cup ThirdPartyModules

\* Members of a loaded module that a member map can name.
Members == {"arch", "cpus"}

\* Names of environment variables.
EnvNames == {"PUBLIC_STUFF", "SECRET_STUFF", "API_KEY"}

\* Resolved file names of modules that issue requests.
FsExtraFile == "/app/node_modules/fs-extra/lib/index.js"
TrashFile == "/app/node_modules/trash/index.js"
MainFile == "/app/index.js"
Files == {FsExtraFile, TrashFile, MainFile}

\* The file of NodeSecurityPlugin, whose require() loads the restricted module.
\* Its own parents (NodeSecurity.js, the application) are left out of the chain:
\* no configuration used here has a table for them.
PluginFile == "/app/node_modules/node-security/dist/plugins/NodeSecurityPlugin.js"

\* Package names a caller can use as keys of config.module; "ghost" is not installed.
PackageNames == {"fs-extra", "trash", "ghost"}

ModuleKeys == PackageNames \cup Files

Instances == 1..NumInstances

\* Module._load as node defines it: the value 0; the load of instance i's ModuleLoader: i.
Pristine == 0

(* ------------------------- value encodings ---------------------------- *)

Absent == [type |-> "absent", allow |-> FALSE, off |-> {}, on |-> {}]
Undefined == [type |-> "undefined", allow |-> FALSE, off |-> {}, on |-> {}]
Bool(b) == [type |-> "boolean", allow |-> b, off |-> {}, on |-> {}]
Object(off, on) == [type |-> "object", allow |-> FALSE, off |-> off, on |-> on]

NoPerms == [n \in RequestNames |-> "unset"]
NoTable == [present |-> FALSE, perms |-> NoPerms]
Table(perms) == [present |-> TRUE, perms |-> perms]

NoEnv == [type |-> "none", allow |-> [e \in EnvNames |-> "unset"]]
EnvFalse == [type |-> "false", allow |-> [e \in EnvNames |-> "unset"]]
EnvMap(allow) == [type |-> "map", allow |-> allow]

\* A user configuration with no section at all: configure() or configure({}).
NoCore == [n \in RequestNames |-> Absent]
NoModule == [k \in ModuleKeys |-> NoTable]
EmptyUserConfig == [core |-> NoCore, module |-> NoModule, env |-> NoEnv]

(* ------------------------- NodeSecurity ------------------------------- *)

\* The table with a core module left out of the hand-written list.
DefaultCoreWithoutOs ==
  [n \in RequestNames |->
     IF n \in (CoreModules \ {"os"}) \cup {GatekeeperName} THEN Bool(FALSE) ELSE Absent]

\* this.config.core of a new instance: every core module, and node-security, false.
DefaultCore ==
  [n \in RequestNames |->
     IF n \in CoreModules \cup {GatekeeperName} THEN Bool(FALSE) ELSE Absent]

\* this.config.plugins of a new instance: NodeSecurityPlugin for every core module.
HasPlugin(n) == n \in CoreModules

\* this.config of a new instance.
DefaultConfig == [core |-> DefaultCore, module |-> NoModule, env |-> NoEnv]

\* No ModuleLoader yet (this.moduleLoader is undefined).
NoLoader == [exists |-> FALSE, config |-> DefaultConfig, originalLoad |-> Pristine]

VARIABLES
  config,        \* config[i]: this.config of instance i
  configured,    \* configured[i]: this.configured
  moduleLoader,  \* moduleLoader[i]: this.moduleLoader (its config and originalLoad)
  ModuleLoad,    \* Module._load: Pristine or the load of an instance's ModuleLoader
  processEnv,    \* process.env: name -> "absent" or its value
  stubbed,       \* the <<module, member>> pairs replaced by a throwing function
  lastOp         \* the last call made and what it did

vars == <<config, configured, moduleLoader, ModuleLoad, processEnv, stubbed, lastOp>>

(* ------------------------- ModuleLoader ------------------------------- *)

\* findParentModules( parent ): a module is the sequence of file names met by
\* following .parent (<<>> is null); the walk pushes each filename in turn.
RECURSIVE findParentModules(_)
findParentModules(parent) ==
  IF parent = <<>> THEN <<>>
  ELSE <<Head(parent)>> \o findParentModules(Tail(parent))

\* The loop keeping the last opinion met instead of returning the first.
RECURSIVE ParentVerdictFarthest(_, _, _, _)
ParentVerdictFarthest(cfg, request, parentModules, i) ==
  IF i > Len(parentModules) THEN "none"
  ELSE LET parentModule == parentModules[i]
           moduleConfig == IF parentModule \in ModuleKeys
                           THEN cfg.module[parentModule] ELSE NoTable
           rest == ParentVerdictFarthest(cfg, request, parentModules, i + 1)
       IN IF rest # "none" THEN rest
          ELSE IF moduleConfig.present /\ moduleConfig.perms[request] # "unset"
          THEN moduleConfig.perms[request]
          ELSE "none"

\* The loop of isModuleAllowed from index i on: the first parent with a table
\* that has an entry for the request decides; "none" when the loop ends.
RECURSIVE ParentVerdict(_, _, _, _)
ParentVerdict(cfg, request, parentModules, i) ==
  IF i > Len(parentModules) THEN "none"
  ELSE LET parentModule == parentModules[i]
           moduleConfig == IF parentModule \in ModuleKeys
                           THEN cfg.module[parentModule] ELSE NoTable
       IN IF moduleConfig.present /\ moduleConfig.perms[request] # "unset"
          THEN moduleConfig.perms[request]
          ELSE ParentVerdict(cfg, request, parentModules, i + 1)

\* The check written as "blocked unless the entry is true".
CoreBlockedUnlessTrue(cfg, request) ==
  ~(cfg.core[request].type = "boolean" /\ cfg.core[request].allow)

\* The check written as "the key is there and its value is falsy".
CoreBlockedFalsy(cfg, request) ==
  \/ cfg.core[request].type = "undefined"
  \/ cfg.core[request].type = "boolean" /\ ~cfg.core[request].allow

\* The check of config.core that follows the loop.
CoreBlocked(cfg, request) ==
  /\ cfg.core[request].type \notin {"absent", "undefined"}
  /\ cfg.core[request].type = "boolean" /\ ~cfg.core[request].allow

\* isModuleAllowed( request, parent ) of a ModuleLoader holding cfg.
isModuleAllowed(cfg, request, parent) ==
  LET v == ParentVerdict(cfg, request, findParentModules(parent), 1)
  IN IF v # "none" THEN v = "true"
     ELSE ~CoreBlocked(cfg, request)

\* A load that asks its own ModuleLoader and then goes to the pristine loader,
\* whatever it captured.
CallLoadTopOnly(loaders, f, request, parent) ==
  IF f = Pristine THEN [result |-> "loaded", hooks |-> <<>>]
  ELSE IF ~isModuleAllowed(loaders[f].config, request, parent)
       THEN [result |-> "denied", hooks |-> <<f>>]
       ELSE [result |-> "loaded", hooks |-> <<f>>]

\* Calling the function f as Module._load( request, parent ): the pristine
\* loader loads; the load of instance f's ModuleLoader throws when the module
\* is not allowed and calls its originalLoad otherwise.  hooks lists the
\* ModuleLoaders whose load ran, in call order.
RECURSIVE CallLoad(_, _, _, _)
CallLoad(loaders, f, request, parent) ==
  IF f = Pristine THEN [result |-> "loaded", hooks |-> <<>>]
  ELSE IF ~isModuleAllowed(loaders[f].config, request, parent)
       THEN [result |-> "denied", hooks |-> <<f>>]
       ELSE LET r == CallLoad(loaders, loaders[f].originalLoad, request, parent)
            IN [r EXCEPT !.hooks = <<f>> \o @]

(* ------------------------- configure ---------------------------------- *)

\* { ...this.config.core, ...userConfig.core || {} }
MergeCore(old, new) ==
  [n \in RequestNames |-> IF new[n].type # "absent" THEN new[n] ELSE old[n]]

\* { ...this.config.module, ...userConfig.module || {} }
MergeModule(old, new) ==
  [k \in ModuleKeys |-> IF new[k].present THEN new[k] ELSE old[k]]

\* The assignment to this.config that opens configure.
MergeConfig(old, userConfig) ==
  [core |-> MergeCore(old.core, userConfig.core),
   module |-> MergeModule(old.module, userConfig.module),
   env |-> userConfig.env]

\* require.resolve( key ): a file name resolves to itself, an installed
\* package to its main file, and anything else throws ("" here).
RequireResolve(key) ==
  IF key \in Files THEN key
  ELSE IF key = "fs-extra" THEN FsExtraFile
  ELSE IF key = "trash" THEN TrashFile
  ELSE ""

\* Whether the map over Object.keys( this.config.module ) throws.
ResolveThrows(module) ==
  \E k \in ModuleKeys : module[k].present /\ RequireResolve(k) = ""

\* The reduce that rebuilds this.config.module under resolved keys.  Two keys
\* resolving to one file: the later key of Object.keys wins, which is the
\* package name, the file name having come from an earlier configure.
ResolveModuleKeys(module) ==
  [p \in ModuleKeys |->
     LET names == {k \in PackageNames : module[k].present /\ RequireResolve(k) = p}
     IN IF names # {} THEN module[CHOOSE k \in names : TRUE]
        ELSE IF p \in Files THEN module[p]
        ELSE NoTable]

\* Object.keys( this.config.core ): the constructor's keys, then the user's.
CoreKeys == <<"fs", "os", "node-security", "fs-extra">>

\* The filter of the plugin negated: the keys holding a truthy value are replaced.
PluginStubsTruthy(key, moduleConfig) == {<<key, m>> : m \in moduleConfig.on}

\* new NodeSecurityPlugin( key, moduleConfig ): its require( key ) goes through
\* Module._load with the plugin file as parent; then every key of moduleConfig
\* that holds a falsy value is replaced on the module.
PluginStubs(key, moduleConfig) == {<<key, m>> : m \in moduleConfig.off}

\* The forEach with a plugin that patches the module whether or not its require
\* was allowed.
RECURSIVE LoadPluginsUnguarded(_, _, _, _, _)
LoadPluginsUnguarded(core, loaders, active, i, acc) ==
  IF i > Len(CoreKeys) THEN acc
  ELSE LET key == CoreKeys[i]
           moduleConfig == core[key]
       IN IF moduleConfig.type = "object" /\ HasPlugin(key)
          THEN LoadPluginsUnguarded(core, loaders, active, i + 1,
                  [acc EXCEPT !.stubs = @ \cup PluginStubs(key, moduleConfig),
                              !.applied = Append(@, key)])
          ELSE LoadPluginsUnguarded(core, loaders, active, i + 1, acc)

\* The forEach over the core keys from index i on: stops at the first plugin
\* whose require throws.  applied lists the modules a plugin was applied to.
RECURSIVE LoadPlugins(_, _, _, _, _)
LoadPlugins(core, loaders, active, i, acc) ==
  IF i > Len(CoreKeys) THEN acc
  ELSE LET key == CoreKeys[i]
           moduleConfig == core[key]
       IN IF moduleConfig.type = "object" /\ HasPlugin(key)
          THEN IF CallLoad(loaders, active, key, <<PluginFile>>).result = "denied"
               THEN [acc EXCEPT !.threw = TRUE]
               ELSE LoadPlugins(core, loaders, active, i + 1,
                       [acc EXCEPT !.stubs = @ \cup PluginStubs(key, moduleConfig),
                                   !.applied = Append(@, key)])
          ELSE LoadPlugins(core, loaders, active, i + 1, acc)

\* The new process.env without the filter: every key of config.env is kept.
NewEnvUnfiltered(env, old) ==
  [e \in EnvNames |->
     IF env.type = "map" /\ env.allow[e] # "unset"
     THEN (IF old[e] = "absent" THEN "undefined" ELSE old[e])
     ELSE "absent"]

\* The new process.env: the keys of config.env holding a truthy value, each
\* with process.env's value for it (undefined when process.env has none).
NewEnv(env, old) ==
  [e \in EnvNames |->
     IF env.type = "map" /\ env.allow[e] = "true"
     THEN (IF old[e] = "absent" THEN "undefined" ELSE old[e])
     ELSE "absent"]

\* What a call leaves in lastOp.
Op(op, inst, error) ==
  [op |-> op, inst |-> inst, error |-> error, request |-> "", parents |-> <<>>,
   result |-> "", hooks |-> <<>>, applied |-> <<>>]

\* The guard left out.
NeverConfigured(i) == FALSE

\* The guard reading whether a ModuleLoader was ever created.
EverConfigured(i) == moduleLoader[i].exists

\* The guard that opens configure.
AlreadyConfigured(i) == configured[i]

\* The guard left out: every accepted configure creates a ModuleLoader.
AlwaysNeedsLoader(i) == TRUE

\* The guard reading the lifecycle flag in place of this.moduleLoader.
NeedsLoaderUnlessConfigured(i) == ~configured[i]

\* The guard of the ModuleLoader creation that closes configure.
NeedsLoader(i) == ~moduleLoader[i].exists

\* configure that filters process.env before it loads the plugins.
ConfigureEnvFirst(i, userConfig) ==
  LET merged == MergeConfig(config[i], userConfig)
      resolved == [merged EXCEPT !.module = ResolveModuleKeys(merged.module)]
      plugins == LoadPlugins(resolved.core, moduleLoader, ModuleLoad, 1,
                             [threw |-> FALSE, stubs |-> {}, applied |-> <<>>])
      newEnv == IF resolved.env.type # "none" THEN NewEnv(resolved.env, processEnv)
                ELSE processEnv
  IN IF configured[i]
     THEN /\ lastOp' = Op("configure", i, "AlreadyConfigured")
          /\ UNCHANGED <<config, configured, moduleLoader, ModuleLoad, processEnv, stubbed>>
     ELSE IF ResolveThrows(merged.module)
     THEN /\ config' = [config EXCEPT ![i] = merged]
          /\ lastOp' = Op("configure", i, "CannotResolve")
          /\ UNCHANGED <<configured, moduleLoader, ModuleLoad, processEnv, stubbed>>
     ELSE IF plugins.threw
     THEN /\ config' = [config EXCEPT ![i] = resolved]
          /\ stubbed' = stubbed \cup plugins.stubs
          /\ processEnv' = newEnv
          /\ lastOp' = [Op("configure", i, "AccessDenied") EXCEPT !.applied = plugins.applied]
          /\ UNCHANGED <<configured, moduleLoader, ModuleLoad>>
     ELSE /\ config' = [config EXCEPT ![i] = resolved]
          /\ stubbed' = stubbed \cup plugins.stubs
          /\ processEnv' = newEnv
          /\ IF ~moduleLoader[i].exists
             THEN /\ moduleLoader' = [moduleLoader EXCEPT ![i] =
                                        [exists |-> TRUE, config |-> resolved, originalLoad |-> ModuleLoad]]
                  /\ ModuleLoad' = i
             ELSE UNCHANGED <<moduleLoader, ModuleLoad>>
          /\ configured' = [configured EXCEPT ![i] = TRUE]
          /\ lastOp' = [Op("configure", i, "none") EXCEPT !.applied = plugins.applied]

\* configure( userConfig ) on instance i.
Configure(i, userConfig) ==
  LET merged == MergeConfig(config[i], userConfig)
      resolved == [merged EXCEPT !.module = ResolveModuleKeys(merged.module)]
      plugins == LoadPlugins(resolved.core, moduleLoader, ModuleLoad, 1,
                             [threw |-> FALSE, stubs |-> {}, applied |-> <<>>])
  IN IF AlreadyConfigured(i)
     THEN /\ lastOp' = Op("configure", i, "AlreadyConfigured")
          /\ UNCHANGED <<config, configured, moduleLoader, ModuleLoad, processEnv, stubbed>>
     ELSE IF ResolveThrows(merged.module)
     THEN /\ config' = [config EXCEPT ![i] = merged]
          /\ lastOp' = Op("configure", i, "CannotResolve")
          /\ UNCHANGED <<configured, moduleLoader, ModuleLoad, processEnv, stubbed>>
     ELSE IF plugins.threw
     THEN /\ config' = [config EXCEPT ![i] = resolved]
          /\ stubbed' = stubbed \cup plugins.stubs
          /\ lastOp' = [Op("configure", i, "AccessDenied") EXCEPT !.applied = plugins.applied]
          /\ UNCHANGED <<configured, moduleLoader, ModuleLoad, processEnv>>
     ELSE /\ config' = [config EXCEPT ![i] = resolved]
          /\ stubbed' = stubbed \cup plugins.stubs
          /\ processEnv' = IF resolved.env.type # "none"
                           THEN NewEnv(resolved.env, processEnv) ELSE processEnv
          /\ IF NeedsLoader(i)
             THEN /\ moduleLoader' = [moduleLoader EXCEPT ![i] =
                        [exists |-> TRUE, config |-> resolved, originalLoad |-> ModuleLoad]]
                  /\ ModuleLoad' = i
             ELSE UNCHANGED <<moduleLoader, ModuleLoad>>
          /\ configured' = [configured EXCEPT ![i] = TRUE]
          /\ lastOp' = [Op("configure", i, "none") EXCEPT !.applied = plugins.applied]

(* ------------------------- reset -------------------------------------- *)

\* The getter returning Module._load as it is now.
getCurrentLoader(i) == ModuleLoad

\* The getter returning node's own loader.
getPristineLoader(i) == Pristine

\* getOriginalLoader() of instance i's ModuleLoader.
getOriginalLoader(i) == moduleLoader[i].originalLoad

\* reset() without its guard: the restore runs whether or not a ModuleLoader exists.
ResetUnguarded(i) ==
  /\ ModuleLoad' = getOriginalLoader(i)
  /\ configured' = [configured EXCEPT ![i] = FALSE]
  /\ lastOp' = Op("reset", i, "none")
  /\ UNCHANGED <<config, moduleLoader, processEnv, stubbed>>

\* reset() that also forgets the ModuleLoader and the configuration.
ResetDroppingLoader(i) ==
  /\ IF moduleLoader[i].exists
     THEN /\ ModuleLoad' = getOriginalLoader(i)
          /\ configured' = [configured EXCEPT ![i] = FALSE]
          /\ moduleLoader' = [moduleLoader EXCEPT ![i] = NoLoader]
          /\ config' = [config EXCEPT ![i] = DefaultConfig]
     ELSE UNCHANGED <<ModuleLoad, configured, moduleLoader, config>>
  /\ lastOp' = Op("reset", i, "none")
  /\ UNCHANGED <<processEnv, stubbed>>

\* reset() that also puts back the members the plugins replaced.
ResetRestoringMembers(i) ==
  /\ IF moduleLoader[i].exists
     THEN /\ ModuleLoad' = getOriginalLoader(i)
          /\ configured' = [configured EXCEPT ![i] = FALSE]
          /\ stubbed' = {}
     ELSE UNCHANGED <<ModuleLoad, configured, stubbed>>
  /\ lastOp' = Op("reset", i, "none")
  /\ UNCHANGED <<config, moduleLoader, processEnv>>

\* reset() on instance i.
Reset(i) ==
  /\ IF moduleLoader[i].exists
     THEN /\ ModuleLoad' = getOriginalLoader(i)
          /\ configured' = [configured EXCEPT ![i] = FALSE]
     ELSE UNCHANGED <<ModuleLoad, configured>>
  /\ lastOp' = Op("reset", i, "none")
  /\ UNCHANGED <<config, moduleLoader, processEnv, stubbed>>

(* ------------------------- a load request ----------------------------- *)

\* require( request ) from the module parent: a call of Module._load.
Load(request, parent) ==
  LET r == CallLoad(moduleLoader, ModuleLoad, request, parent)
  IN /\ lastOp' = [Op("load", 0, IF r.result = "denied" THEN "AccessDenied" ELSE "none")
                     EXCEPT !.request = request,
                            !.parents = findParentModules(parent),
                            !.result = r.result,
                            !.hooks = r.hooks]
     /\ UNCHANGED <<config, configured, moduleLoader, ModuleLoad, processEnv, stubbed>>

(* ------------------------- process.binding ---------------------------- *)

\* The function at process.binding.  No statement of configure, reset or the
\* ModuleLoader assigns it, so it is the host's own function throughout.
processBinding == "native"

\* process.binding( name ) called by any module.
Binding(name) ==
  /\ lastOp' = [Op("binding", 0, IF processBinding = "native" THEN "none" ELSE "AccessDenied")
                  EXCEPT !.request = name,
                         !.result = IF processBinding = "native" THEN "returned" ELSE "denied"]
  /\ UNCHANGED <<config, configured, moduleLoader, ModuleLoad, processEnv, stubbed>>

(* ------------------------- inputs ------------------------------------- *)

\* The chains of distinct files of at most n parents.
RECURSIVE ParentChains(_)
ParentChains(n) ==
  IF n = 0 THEN {<<>>}
  ELSE LET shorter == ParentChains(n - 1)
           longest == {c \in shorter : Len(c) = n - 1}
       IN shorter \cup
          {<<p[1]>> \o p[2] : p \in {q \in Files \X longest :
                                       \A j \in 1..Len(q[2]) : q[2][j] # q[1]}}

Chains == ParentChains(MaxParents)

\* The parents of the load requests of the lifecycle specification.
LifecycleParents == {<<MainFile>>, <<FsExtraFile, MainFile>>}

\* core: { fs: true, os: { arch: false, cpus: true } }, module: { 'fs-extra': { fs: false } }
RestrictOsConfig ==
  [core |-> [NoCore EXCEPT !["fs"] = Bool(TRUE), !["os"] = Object({"arch"}, {"cpus"})],
   module |-> [NoModule EXCEPT !["fs-extra"] = Table([NoPerms EXCEPT !["fs"] = "false"])],
   env |-> NoEnv]

\* The user configurations of the lifecycle specification.
LifecycleConfigs == {EmptyUserConfig, RestrictOsConfig}

\* core: { os: { cpus: false } }
RestrictCpusConfig ==
  [core |-> [NoCore EXCEPT !["os"] = Object({"cpus"}, {})],
   module |-> NoModule,
   env |-> NoEnv]

\* The user configurations of the plugin specification.
PluginConfigs == LifecycleConfigs \cup {RestrictCpusConfig}

\* env: { PUBLIC_STUFF: true }
PublicEnvConfig ==
  [EmptyUserConfig EXCEPT !.env = EnvMap([NoEnv.allow EXCEPT !["PUBLIC_STUFF"] = "true"])]

\* env: { SECRET_STUFF: false, API_KEY: true, PUBLIC_STUFF: true }
MixedEnvConfig ==
  [EmptyUserConfig EXCEPT !.env = EnvMap([NoEnv.allow EXCEPT !["SECRET_STUFF"] = "false",
                                                           !["API_KEY"] = "true",
                                                           !["PUBLIC_STUFF"] = "true"])]

\* env: false
NoEnvConfig == [EmptyUserConfig EXCEPT !.env = EnvFalse]

\* The user configurations of the environment specification.
EnvConfigs == {EmptyUserConfig, PublicEnvConfig, MixedEnvConfig, NoEnvConfig}

\* core: { fs: true }
AllowFsConfig == [EmptyUserConfig EXCEPT !.core = [NoCore EXCEPT !["fs"] = Bool(TRUE)]]

\* The user configurations of the chain specification.
ChainConfigs == LifecycleConfigs \cup {AllowFsConfig}

\* module: { ghost: { fs: true } }, env: { PUBLIC_STUFF: true }: ghost is not installed.
GhostEnvConfig ==
  [core |-> NoCore,
   module |-> [NoModule EXCEPT !["ghost"] = Table([NoPerms EXCEPT !["fs"] = "true"])],
   env |-> PublicEnvConfig.env]

\* core: { os: { arch: false, cpus: true } }, env: false
RestrictOsEnvConfig ==
  [core |-> [NoCore EXCEPT !["os"] = Object({"arch"}, {"cpus"})],
   module |-> NoModule,
   env |-> EnvFalse]

\* The user configurations of the failure specification.
FailConfigs == {EmptyUserConfig, GhostEnvConfig, RestrictOsEnvConfig}

\* What a policy can say about one name: a core entry of any kind or none, and
\* for each of two packages a table entry, true or false, or no table.
PolicyAbout(n) ==
  {[core |-> [NoCore EXCEPT ![n] = c],
    module |-> [NoModule EXCEPT !["fs-extra"] = t1, !["trash"] = t2],
    env |-> NoEnv] :
     c \in {Absent, Bool(TRUE), Bool(FALSE), Undefined, Object({"arch"}, {"cpus"})},
     t1 \in {NoTable, Table([NoPerms EXCEPT ![n] = "true"]), Table([NoPerms EXCEPT ![n] = "false"])},
     t2 \in {NoTable, Table([NoPerms EXCEPT ![n] = "true"]), Table([NoPerms EXCEPT ![n] = "false"])}}

\* The user configurations of the policy specification.
PolicyConfigs == UNION {PolicyAbout(n) : n \in RequestNames} \cup LifecycleConfigs

(* ------------------------- specifications ----------------------------- *)

\* The process after the instances are constructed and before any call.
Init ==
  /\ config = [i \in Instances |-> DefaultConfig]
  /\ configured = [i \in Instances |-> FALSE]
  /\ moduleLoader = [i \in Instances |-> NoLoader]
  /\ ModuleLoad = Pristine
  /\ processEnv = [e \in EnvNames |->
                     IF e = "PUBLIC_STUFF" THEN "Not magic"
                     ELSE IF e = "SECRET_STUFF" THEN "Magic" ELSE "absent"]
  /\ stubbed = {}
  /\ lastOp = Op("new", 0, "none")

ConfigureCall == \E i \in Instances, userConfig \in LifecycleConfigs : Configure(i, userConfig)

ResetCall == \E i \in Instances : Reset(i)

LoadCall == \E request \in RequestNames, parent \in LifecycleParents : Load(request, parent)

Next == ConfigureCall \/ ResetCall \/ LoadCall

\* Any number of instances, configured, reset and used in any order.
Spec == Init /\ [][Next]_vars

PolicyConfigureCall == \E userConfig \in PolicyConfigs : Configure(1, userConfig)

PolicyLoadCall == \E request \in RequestNames, parent \in Chains : Load(request, parent)

PolicyNext == PolicyConfigureCall \/ PolicyLoadCall

\* One instance given any policy, then any load request.
PolicySpec == Init /\ [][PolicyNext]_vars

\* The instances the plugin and environment specifications use.
FirstInstances == {i \in Instances : i <= 2}

PluginConfigureCall == \E i \in FirstInstances, userConfig \in PluginConfigs : Configure(i, userConfig)

FirstResetCall == \E i \in FirstInstances : Reset(i)

PluginNext == PluginConfigureCall \/ FirstResetCall

\* The instances configured with member maps, reset and configured again.
PluginSpec == Init /\ [][PluginNext]_vars

EnvConfigureCall == \E i \in FirstInstances, userConfig \in EnvConfigs : Configure(i, userConfig)

EnvNext == EnvConfigureCall \/ FirstResetCall

\* The instances configured with environment allow-lists, reset and configured again.
EnvSpec == Init /\ [][EnvNext]_vars

BindingCall == \E name \in CoreModules : Binding(name)

BindingNext == ConfigureCall \/ ResetCall \/ BindingCall

\* The instances configured and reset while modules call process.binding.
BindingSpec == Init /\ [][BindingNext]_vars

ChainConfigureCall == \E i \in Instances, userConfig \in ChainConfigs : Configure(i, userConfig)

ChainNext == ChainConfigureCall \/ LoadCall

\* Instances configured one after another and never reset, and load requests.
ChainSpec == Init /\ [][ChainNext]_vars

FailConfigureCall == \E i \in FirstInstances, userConfig \in FailConfigs : Configure(i, userConfig)

FailNext == FailConfigureCall \/ FirstResetCall

\* The instances given configurations that make configure throw.
FailSpec == Init /\ [][FailNext]_vars

(* ------------------------- properties --------------------------------- *)

\* Whether some parent of the chain has a table with an entry for the request.
HasOverride(cfg, request, parents) ==
  \E j \in 1..Len(parents) :
     /\ parents[j] \in ModuleKeys
     /\ cfg.module[parents[j]].present
     /\ cfg.module[parents[j]].perms[request] # "unset"

\* The entry of the nearest parent that has one (HasOverride assumed).
NearestOverride(cfg, request, parents) ==
  LET j == CHOOSE k \in 1..Len(parents) :
             /\ cfg.module[parents[k]].present
             /\ cfg.module[parents[k]].perms[request] # "unset"
             /\ \A m \in 1..(k - 1) :
                  ~(cfg.module[parents[m]].present
                    /\ cfg.module[parents[m]].perms[request] # "unset")
  IN cfg.module[parents[j]].perms[request]

\* The last call was a load request that entered instance i's hook, installed
\* directly over the pristine loader.
LoadThrough(i) ==
  /\ lastOp.op = "load"
  /\ moduleLoader[i].exists
  /\ ModuleLoad = i
  /\ moduleLoader[i].originalLoad = Pristine

\* The load was refused by hook i: it raised, and the pristine loader was not called.
Refused(i) == lastOp.result = "denied" /\ lastOp.error = "AccessDenied" /\ lastOp.hooks = <<i>>

\* The load was passed by hook i to its previous implementation, which loaded.
Delegated(i) == lastOp.result = "loaded" /\ lastOp.error = "none" /\ lastOp.hooks = <<i>>

\* C1: an instance configured with no user policy (its hook holds the
\* constructor's defaults) refuses every load request for a built-in module
\* name or for node-security whose parent chain carries no override for it:
\* the load raises and the pristine loader is not called.
C1_SecureByDefault ==
  \A i \in Instances :
     ( /\ LoadThrough(i)
       /\ moduleLoader[i].config = DefaultConfig
       /\ lastOp.request \in CoreModules \cup {GatekeeperName}
       /\ ~HasOverride(moduleLoader[i].config, lastOp.request, lastOp.parents) )
     => Refused(i)

C1_Witness ==
  /\ LoadThrough(1)
  /\ moduleLoader[1].config = DefaultConfig
  /\ lastOp.request = "os"
  /\ Refused(1)

\* C2: when some parent of the chain has an override entry for the request,
\* the verdict is the entry of the nearest such parent, whatever farther
\* parents and the core table say.
C2_NearestRequesterWins ==
  \A i \in Instances :
     ( /\ LoadThrough(i)
       /\ HasOverride(moduleLoader[i].config, lastOp.request, lastOp.parents) )
     => IF NearestOverride(moduleLoader[i].config, lastOp.request, lastOp.parents) = "true"
        THEN Delegated(i) ELSE Refused(i)

\* The chain [fs-extra, trash], fs-extra allowed fs, trash denied fs, fs denied in core.
C2_Witness ==
  /\ LoadThrough(1)
  /\ lastOp.request = "fs"
  /\ lastOp.parents = <<FsExtraFile, TrashFile>>
  /\ moduleLoader[1].config.module[FsExtraFile].perms["fs"] = "true"
  /\ moduleLoader[1].config.module[TrashFile].perms["fs"] = "false"
  /\ CoreBlocked(moduleLoader[1].config, "fs")
  /\ Delegated(1)

\* C3 (as claimed): when a farther parent of the chain is denied the module by
\* its override, the request made through a nearer parent is refused, even
\* when the nearer parent's override allows the module.
C3_AncestorDenialDominates ==
  \A i \in Instances :
     ( /\ LoadThrough(i)
       /\ \E j \in 2..Len(lastOp.parents) :
            /\ moduleLoader[i].config.module[lastOp.parents[j]].present
            /\ moduleLoader[i].config.module[lastOp.parents[j]].perms[lastOp.request] = "false" )
     => Refused(i)

\* C4 (as claimed): whatever policy configure was given and whatever the
\* chain, a load request for node-security itself is refused.
C4_SelfProtection ==
  \A i \in Instances :
     (LoadThrough(i) /\ lastOp.request = GatekeeperName) => Refused(i)

\* C5: a request whose name has no entry in the core table and no override in
\* the chain is allowed, and the load is passed to the previous implementation.
C5_FailOpen ==
  \A i \in Instances :
     ( /\ LoadThrough(i)
       /\ moduleLoader[i].config.core[lastOp.request].type = "absent"
       /\ ~HasOverride(moduleLoader[i].config, lastOp.request, lastOp.parents) )
     => Delegated(i)

C5_Witness ==
  /\ LoadThrough(1)
  /\ lastOp.request = "fs-extra"
  /\ moduleLoader[1].config.core["fs-extra"].type = "absent"
  /\ lastOp.parents = <<TrashFile, MainFile>>
  /\ Delegated(1)

\* C6 (as claimed): with no override in the chain, a core entry that is false
\* or unset refuses, an entry that is true allows and a member map allows.
C6_GlobalTableAsClaimed ==
  \A i \in Instances :
     ( /\ LoadThrough(i)
       /\ ~HasOverride(moduleLoader[i].config, lastOp.request, lastOp.parents) )
     => LET entry == moduleLoader[i].config.core[lastOp.request]
        IN /\ (entry.type = "boolean" /\ ~entry.allow) => Refused(i)
           /\ entry.type = "undefined" => Refused(i)
           /\ (entry.type = "boolean" /\ entry.allow) => Delegated(i)
           /\ entry.type = "object" => Delegated(i)

\* C6 (amended): with no override in the chain, a core entry that is false
\* refuses; an entry that is true, a member map, and an entry that is there
\* but unset (undefined) all allow.
C6_GlobalTable ==
  \A i \in Instances :
     ( /\ LoadThrough(i)
       /\ ~HasOverride(moduleLoader[i].config, lastOp.request, lastOp.parents) )
     => LET entry == moduleLoader[i].config.core[lastOp.request]
        IN /\ (entry.type = "boolean" /\ ~entry.allow) => Refused(i)
           /\ entry.type = "undefined" => Delegated(i)
           /\ (entry.type = "boolean" /\ entry.allow) => Delegated(i)
           /\ entry.type = "object" => Delegated(i)

\* A built-in module whose default entry the user replaced by undefined loads.
C6_Witness ==
  /\ LoadThrough(1)
  /\ lastOp.request = "fs"
  /\ lastOp.parents = <<MainFile>>
  /\ moduleLoader[1].config.core["fs"].type = "undefined"
  /\ Delegated(1)

\* C7 (as claimed): while an instance is Configured, every load request that
\* reaches the pristine loader was allowed by that instance's policy.
C7_EnforcedWhileConfigured ==
  \A i \in Instances :
     (configured[i] /\ lastOp.op = "load" /\ lastOp.result = "loaded")
     => isModuleAllowed(config[i], lastOp.request, lastOp.parents)

\* C8: configure on a Configured instance raises AlreadyConfigured and changes
\* nothing: the policy, Module._load, process.env and every instance stay as
\* they were.
C8_ConfigureOnce ==
  [][ (lastOp'.op = "configure" /\ configured[lastOp'.inst])
      => /\ lastOp'.error = "AlreadyConfigured"
         /\ UNCHANGED <<config, configured, moduleLoader, ModuleLoad, processEnv, stubbed>>
    ]_vars

\* A refused second configure, the first configuration still installed.
C8_Witness ==
  /\ lastOp.op = "configure"
  /\ lastOp.error = "AlreadyConfigured"
  /\ configured[lastOp.inst]
  /\ ModuleLoad = lastOp.inst
  /\ config[lastOp.inst] = DefaultConfig

\* C9 (as claimed): an instance becomes Configured once only; every configure
\* call after its first successful one, also after reset, raises AlreadyConfigured.
C9_AtMostOneConfigure ==
  [][ \A i \in Instances :
        /\ (lastOp'.op = "configure" /\ lastOp'.inst = i /\ moduleLoader[i].exists)
           => lastOp'.error = "AlreadyConfigured"
        /\ (~configured[i] /\ configured'[i]) => ~moduleLoader[i].exists
    ]_vars

\* C9 (amended): a configure call raises AlreadyConfigured exactly when the
\* instance is Configured at the call; reset makes the instance configurable
\* again, and a call that raises nothing moves it from not Configured to
\* Configured, so that transition can happen once after each reset.
C9_ConfigureUnlessConfigured ==
  [][ lastOp'.op = "configure"
      => /\ (lastOp'.error = "AlreadyConfigured") <=> configured[lastOp'.inst]
         /\ lastOp'.error = "none"
            => (~configured[lastOp'.inst] /\ configured'[lastOp'.inst])
    ]_vars

\* A configure accepted after a reset: the instance is Configured again and
\* its hook is not Module._load.
C9_Witness ==
  /\ lastOp.op = "configure"
  /\ lastOp.error = "none"
  /\ configured[lastOp.inst]
  /\ moduleLoader[lastOp.inst].exists
  /\ ModuleLoad # lastOp.inst

\* C10: one instance configured and then reset, no other instance ever having
\* installed a hook: Module._load is the pristine loader again, and every load
\* request is served by it with no policy check.
C10_ResetRestores ==
  \A i \in Instances :
     ( /\ moduleLoader[i].exists
       /\ ~configured[i]
       /\ \A j \in Instances \ {i} : ~moduleLoader[j].exists )
     => /\ ModuleLoad = Pristine
        /\ lastOp.op = "load"
           => (lastOp.result = "loaded" /\ lastOp.hooks = <<>>)

\* A built-in module denied by the reset instance's policy loads after the reset.
C10_Witness ==
  /\ moduleLoader[1].exists
  /\ ~configured[1]
  /\ \A j \in Instances \ {1} : ~moduleLoader[j].exists
  /\ lastOp.op = "load"
  /\ lastOp.request = "os"
  /\ ~isModuleAllowed(moduleLoader[1].config, "os", lastOp.parents)
  /\ lastOp.result = "loaded"
  /\ lastOp.hooks = <<>>

\* The hooks met by following originalLoad from the function f down to the
\* pristine loader (at most one step per instance).
RECURSIVE HooksFrom(_, _)
HooksFrom(f, n) ==
  IF f = Pristine \/ n = 0 THEN {}
  ELSE {f} \cup HooksFrom(moduleLoader[f].originalLoad, n - 1)

ActiveHooks == HooksFrom(ModuleLoad, NumInstances)

\* The instances that are Configured.
ConfiguredSet == {i \in Instances : configured[i]}

\* The hooks of the Configured instances, and only they, are stacked under
\* Module._load, each instance holding the policy its hook holds: the state
\* after configures in some order and resets in the reverse order.
Stacked ==
  /\ ActiveHooks = ConfiguredSet
  /\ \A i \in ConfiguredSet : moduleLoader[i].exists /\ config[i] = moduleLoader[i].config

\* C11: when the Configured instances are stacked in install order and the
\* most recently installed one is reset, Module._load becomes the hook of the
\* latest instance not yet reset (the pristine loader when none is left), the
\* remaining instances stay stacked, and a load request that the policy of
\* any remaining instance denies is refused.
C11_ReverseOrderReset ==
  [][ /\ ( /\ Stacked
           /\ lastOp'.op = "reset"
           /\ ModuleLoad = lastOp'.inst
           /\ configured[lastOp'.inst] )
         => LET rest == ConfiguredSet \ {lastOp'.inst}
            IN /\ Stacked'
               /\ ConfiguredSet' = rest
               /\ IF rest = {} THEN ModuleLoad' = Pristine
                  ELSE /\ ModuleLoad' \in rest
                       /\ HooksFrom(ModuleLoad', NumInstances) = rest
      /\ ( /\ Stacked
           /\ lastOp'.op = "load"
           /\ \E i \in ConfiguredSet :
                ~isModuleAllowed(config[i], lastOp'.request, lastOp'.parents) )
         => lastOp'.result = "denied"
    ]_vars

\* Instance 1 configured, instance 2 configured and reset: fs, denied by
\* instance 1, is still refused, by the hook of instance 1.
C11_Witness ==
  /\ moduleLoader[1].exists /\ configured[1]
  /\ moduleLoader[2].exists /\ ~configured[2]
  /\ moduleLoader[2].originalLoad = 1
  /\ ModuleLoad = 1
  /\ lastOp.op = "load" /\ lastOp.request = "fs"
  /\ lastOp.result = "denied" /\ lastOp.hooks = <<1>>

\* C12 (as claimed): instance j configured over instance i, both Configured:
\* after reset of instance i the hook of instance j is still Module._load.
C12_LaterHookStaysActive ==
  [][ \A i, j \in Instances :
        ( /\ i # j
          /\ moduleLoader[i].exists /\ configured[i]
          /\ moduleLoader[j].exists /\ configured[j]
          /\ moduleLoader[j].originalLoad = i
          /\ ModuleLoad = j
          /\ lastOp'.op = "reset" /\ lastOp'.inst = i )
        => ModuleLoad' = j
    ]_vars

\* C13 (as claimed): the hook of an instance that was reset is not
\* Module._load and is run by no load request.
C13_NoResurrection ==
  \A i \in Instances :
     (moduleLoader[i].exists /\ ~configured[i])
     => /\ ModuleLoad # i
        /\ lastOp.op = "load" => \A k \in 1..Len(lastOp.hooks) : lastOp.hooks[k] # i

\* C14: reset on an instance that has no ModuleLoader (never configured)
\* raises nothing and changes nothing: Module._load, the instance's flag and
\* policy and every other instance stay as they were, so a later configure
\* of the instance is accepted.
C14_ResetBeforeConfigure ==
  [][ (lastOp'.op = "reset" /\ ~moduleLoader[lastOp'.inst].exists)
      => /\ lastOp'.error = "none"
         /\ UNCHANGED <<config, configured, moduleLoader, ModuleLoad, processEnv, stubbed>>
         /\ ~configured'[lastOp'.inst]
    ]_vars

\* A reset of a never configured instance while another instance's hook is installed.
C14_Witness ==
  /\ lastOp.op = "reset"
  /\ ~moduleLoader[lastOp.inst].exists
  /\ ModuleLoad # Pristine
  /\ ModuleLoad # lastOp.inst

\* Whether the step is a configure of instance i that returned normally.
ConfigureSucceeds(i) ==
  lastOp'.op = "configure" /\ lastOp'.inst = i /\ lastOp'.error = "none"

\* The members of module n the policy of instance i restricts, after the step.
RestrictedBy(i, n) == config'[i].core[n].type = "object" /\ HasPlugin(n)

\* C15 as stated: after a configure whose policy holds a member map for a module
\* that has a plugin, a member of the module fails when invoked if and only if
\* the map gives it false.
C15_MemberRestrictionAsClaimed ==
  [][ \A i \in Instances, n \in CoreModules, m \in Members :
        (ConfigureSucceeds(i) /\ RestrictedBy(i, n))
          => (<<n, m>> \in stubbed' <=> m \in config'[i].core[n].off)
    ]_vars

\* C15: after a successful configure whose policy holds a member map for a
\* module that has a plugin, every member the map gives false fails when
\* invoked, and a member absent from the map or given true behaves as it did
\* before the configure: it fails if and only if an earlier configure stubbed it.
C15_MemberRestriction ==
  [][ \A i \in Instances, n \in CoreModules, m \in Members :
        (ConfigureSucceeds(i) /\ RestrictedBy(i, n))
          => (<<n, m>> \in stubbed' <=>
                (m \in config'[i].core[n].off \/ <<n, m>> \in stubbed))
    ]_vars

\* A first configure with { os: { arch: false, cpus: true } } has returned:
\* os.arch is stubbed and os.cpus is not.
C15_Witness ==
  /\ lastOp.op = "configure" /\ lastOp.error = "none" /\ lastOp.applied = <<"os">>
  /\ config[lastOp.inst].core["os"] = Object({"arch"}, {"cpus"})
  /\ stubbed = {<<"os", "arch">>}

\* C16: after a successful configure that supplies an environment allow-list,
\* process.env holds no entry for a name the list does not give true, every
\* entry it holds has the value process.env had for that name before the call,
\* an allowed name that had a value keeps it, and with env: false it is empty.
C16_EnvFiltering ==
  [][ \A i \in Instances :
        (ConfigureSucceeds(i) /\ config'[i].env.type # "none")
          => /\ \A e \in EnvNames :
                  /\ (config'[i].env.type = "map" /\ config'[i].env.allow[e] = "true")
                       \/ processEnv'[e] = "absent"
                  /\ processEnv'[e] # "absent"
                       => \/ processEnv'[e] = processEnv[e]
                          \/ processEnv[e] = "absent" /\ processEnv'[e] = "undefined"
                  /\ (config'[i].env.type = "map" /\ config'[i].env.allow[e] = "true"
                        /\ processEnv[e] # "absent")
                       => processEnv'[e] = processEnv[e]
             /\ config'[i].env.type = "false"
                  => \A e \in EnvNames : processEnv'[e] = "absent"
    ]_vars

\* configure({ env: { PUBLIC_STUFF: true } }) has returned in a process that
\* had PUBLIC_STUFF and SECRET_STUFF: only PUBLIC_STUFF is left, with its value.
C16_Witness ==
  /\ lastOp.op = "configure" /\ lastOp.error = "none"
  /\ config[lastOp.inst].env = PublicEnvConfig.env
  /\ processEnv["PUBLIC_STUFF"] = "Not magic"
  /\ processEnv["SECRET_STUFF"] = "absent"
  /\ processEnv["API_KEY"] = "absent"

\* C17: after a successful configure, with an empty configuration too, a call
\* of process.binding fails with an error.
C17_NativeBindingBlocked ==
  (lastOp.op = "binding" /\ \E i \in Instances : configured[i])
    => lastOp.result = "denied"

\* Instances 1..n were configured in that order and none was reset.
InOrder(n) ==
  /\ ModuleLoad = n
  /\ \A k \in 1..n : /\ moduleLoader[k].exists /\ configured[k]
                      /\ moduleLoader[k].originalLoad = k - 1
  /\ \A k \in Instances : k > n => ~moduleLoader[k].exists

\* Whether the hook of instance k allows the request of the last load.
HookAllows(k) == isModuleAllowed(moduleLoader[k].config, lastOp.request, lastOp.parents)

\* C18: with instances 1..n configured in order and none reset, a load reaches
\* the pristine loader if and only if the hook of every instance allows it, and
\* a denied load stops at the first hook that denies: the hooks from n down to
\* that one ran, nothing below it was called.
C18_EveryHookGates ==
  \A n \in Instances :
    (lastOp.op = "load" /\ InOrder(n))
      => /\ lastOp.result = "loaded" <=> \A k \in 1..n : HookAllows(k)
         /\ lastOp.result = "loaded" => lastOp.hooks = [j \in 1..n |-> n - j + 1]
         /\ lastOp.result # "loaded"
              => LET d == CHOOSE k \in 1..n :
                            ~HookAllows(k) /\ \A h \in (k + 1)..n : HookAllows(h)
                 IN /\ lastOp.result = "denied"
                    /\ lastOp.hooks = [j \in 1..(n - d + 1) |-> n - j + 1]

\* Two instances configured in order; a load the second allows and the first denies.
C18_Witness ==
  /\ InOrder(2)
  /\ lastOp.op = "load" /\ lastOp.result = "denied" /\ lastOp.hooks = <<2, 1>>
  /\ HookAllows(2) /\ ~HookAllows(1)

\* C19: a reset of instance N leaves every instance's configuration, every
\* ModuleLoader with the policy and the originalLoad it holds, the lifecycle
\* flag of every other instance, process.env and the stubbed members unchanged.
C19_ResetFrame ==
  [][ lastOp'.op = "reset"
        => /\ UNCHANGED <<config, moduleLoader, processEnv, stubbed>>
           /\ \A j \in Instances : j # lastOp'.inst => configured'[j] = configured[j]
    ]_vars

\* A configured instance holding a member map was reset while another
\* instance is configured: its policy, its ModuleLoader and the stub remain.
C19_Witness ==
  /\ lastOp.op = "reset"
  /\ moduleLoader[lastOp.inst].exists /\ ~configured[lastOp.inst]
  /\ config[lastOp.inst].core["os"].type = "object"
  /\ moduleLoader[lastOp.inst].config = config[lastOp.inst]
  /\ stubbed = {<<"os", "arch">>}
  /\ \E j \in Instances : j # lastOp.inst /\ configured[j]

\* C20: the policy an instance holds and the policy its hook consults are the
\* same policy, the one of the instance's first successful configure, whatever
\* configure, reset and load calls follow.
C20_PolicyBoundPermanently ==
  \A i \in Instances : moduleLoader[i].exists => config[i] = moduleLoader[i].config

\* The modules the policy of instance i restricts by a member map, after the step.
RestrictedModules(i) == {n \in CoreModules : RestrictedBy(i, n)}

\* The modules a plugin was applied to in the step.
Applied == {lastOp'.applied[k] : k \in 1..Len(lastOp'.applied)}

\* C21: in a configure the plugin is applied at most once per module, only to
\* modules the policy restricts by a member map and that have a plugin, and only
\* when the load of the module through the installed hooks succeeded; a
\* configure that returns has applied it to every such module; members are
\* stubbed for applied modules only; a load request applies no plugin.
C21_PluginRunsAtConfigure ==
  [][ /\ \A i \in Instances :
           (lastOp'.op = "configure" /\ lastOp'.inst = i)
             => /\ \A j, k \in 1..Len(lastOp'.applied) :
                      lastOp'.applied[j] = lastOp'.applied[k] => j = k
                /\ Applied \subseteq RestrictedModules(i)
                /\ \A n \in Applied :
                      CallLoad(moduleLoader, ModuleLoad, n, <<PluginFile>>).result = "loaded"
                /\ lastOp'.error = "none" => Applied = RestrictedModules(i)
                /\ \A s \in stubbed' \ stubbed : s[1] \in Applied
      /\ lastOp'.op \notin {"configure"} => (Applied = {} /\ stubbed' = stubbed)
    ]_vars

\* A configure with fs: true and a member map for os has returned while another
\* instance's hook is installed: the plugin ran for os, once, and not for fs.
C21_Witness ==
  /\ lastOp.op = "configure" /\ lastOp.error = "none" /\ lastOp.applied = <<"os">>
  /\ config[lastOp.inst].core["fs"] = Bool(TRUE)
  /\ \E j \in Instances : j # lastOp.inst /\ moduleLoader[j].exists
                            /\ moduleLoader[lastOp.inst].originalLoad = j

\* C22: a member replaced by a failing stub stays one in every later state,
\* whatever configure, reset or load follows.
C22_StubsPermanent == [][stubbed \subseteq stubbed']_vars

\* os.arch was stubbed, every instance has been reset, the pristine loader is
\* back, a module was loaded, and os.arch is still the stub.
C22_Witness ==
  /\ stubbed = {<<"os", "arch">>}
  /\ \A i \in Instances : ~configured[i]
  /\ ModuleLoad = Pristine
  /\ lastOp.op = "load" /\ lastOp.request = "os" /\ lastOp.result = "loaded"

\* Whether the step is a configure that threw.
ConfigureFails == lastOp'.op = "configure" /\ lastOp'.error # "none"

\* C23 as stated: after a configure that raised for any reason, Module._load
\* and process.env are as before the call and the instance is not Configured.
C23_FailedConfigureAsClaimed ==
  [][ ConfigureFails
        => /\ ModuleLoad' = ModuleLoad
           /\ processEnv' = processEnv
           /\ ~configured'[lastOp'.inst]
    ]_vars

\* C23: after a configure that raised for any reason, Module._load, process.env,
\* every ModuleLoader and every instance's lifecycle flag are as before the call:
\* the instance is still Configured after AlreadyConfigured and is not
\* Configured after an unresolvable name or a denied plugin load.
C23_FailedConfigureInstallsNothing ==
  [][ ConfigureFails
        => /\ UNCHANGED <<ModuleLoad, processEnv, moduleLoader, configured>>
           /\ configured'[lastOp'.inst] <=> lastOp'.error = "AlreadyConfigured"
    ]_vars

\* configure({ core: { os: {...} }, env: false }) threw because an installed
\* hook denied the plugin's require of os: process.env still has its entries.
C23_Witness ==
  /\ lastOp.op = "configure" /\ lastOp.error = "AccessDenied"
  /\ config[lastOp.inst].env = EnvFalse
  /\ ~configured[lastOp.inst] /\ ~moduleLoader[lastOp.inst].exists
  /\ ModuleLoad # Pristine
  /\ processEnv["PUBLIC_STUFF"] = "Not magic" /\ processEnv["SECRET_STUFF"] = "Magic"

\* Whether following originalLoad from the function f reaches the pristine
\* loader without meeting a ModuleLoader of seen or one that was never created.
RECURSIVE Grounded(_, _)
Grounded(f, seen) ==
  \/ f = Pristine
  \/ /\ f \in Instances \ seen
     /\ moduleLoader[f].exists
     /\ Grounded(moduleLoader[f].originalLoad, seen \cup {f})

\* C24: from Module._load, and from every ModuleLoader, the originalLoad
\* references lead to the pristine loader and pass no hook twice, and every
\* load request ended with the pristine loader's result or an access-denied
\* failure after running each hook at most once.
C24_ChainGrounded ==
  /\ Grounded(ModuleLoad, {})
  /\ \A i \in Instances : moduleLoader[i].exists => Grounded(i, {})
  /\ lastOp.op = "load"
       => /\ lastOp.result \in {"loaded", "denied"}
          /\ \A j, k \in 1..Len(lastOp.hooks) : lastOp.hooks[j] = lastOp.hooks[k] => j = k

\* After out-of-order resets the hook of a reset instance is the entry point
\* again; a load ran it and reached the pristine loader.
C24_Witness ==
  /\ \A i \in Instances : moduleLoader[i].exists /\ ~configured[i]
  /\ ModuleLoad # Pristine
  /\ lastOp.op = "load" /\ lastOp.result = "loaded" /\ lastOp.hooks = <<ModuleLoad>>

\* C25: the ModuleLoader of an instance, with the originalLoad it captured, is
\* created by a configure of that instance that returns, capturing Module._load
\* of that moment and becoming Module._load; it never changes afterwards, and
\* a later configure of the instance that is accepted leaves Module._load and
\* every ModuleLoader as they were.
C25_HookInstalledOnce ==
  [][ \A i \in Instances :
        /\ moduleLoader[i].exists => moduleLoader'[i] = moduleLoader[i]
        /\ (~moduleLoader[i].exists /\ moduleLoader'[i].exists)
             => /\ ConfigureSucceeds(i)
                /\ moduleLoader'[i].originalLoad = ModuleLoad
                /\ ModuleLoad' = i
        /\ (ConfigureSucceeds(i) /\ moduleLoader[i].exists)
             => UNCHANGED <<ModuleLoad, moduleLoader>>
    ]_vars

\* An instance was configured, reset and configured again with another policy
\* while another instance's hook is the entry point: it is Configured, its
\* ModuleLoader is the old one and Module._load was not touched.
C25_Witness ==
  /\ lastOp.op = "configure" /\ lastOp.error = "none"
  /\ configured[lastOp.inst] /\ moduleLoader[lastOp.inst].exists
  /\ moduleLoader[lastOp.inst].config # config[lastOp.inst]
  /\ ModuleLoad \notin {Pristine, lastOp.inst}

=============================================================================
